---------------------------- MODULE Spec2Model ----------------------------
(***************************************************************************)
(* Authentication and password-reset flow of the jubilee backend:         *)
(* AuthController (src/src/services/facilityService.js, lines 91-303),     *)
(* UserService (src/src/services/UserService.js), the Mailer               *)
(* (src/src/test/request.test.js, lines 180-228) and the auth router       *)
(* (src/unnamed/part_000).                                                 *)
(*                                                                         *)
(* The persistent store is the variable users; every handler is one        *)
(* action that applies the handler's result to the store and records the  *)
(* request it served and the response it sent in the variable last.        *)
(* The second specification, SpecConc, runs signUp requests concurrently,  *)
(* each split at its await points.                                         *)
(***************************************************************************)
EXTENDS Integers, Sequences, FiniteSets, TLC

VARIABLES users, last, procs

vars == <<users, last, procs>>

---------------------------------------------------------------------------
(* Bounds of the model.                                                    *)

\* Number of distinct salts hashPassword can draw.
MaxSalt == 2

\* Number of concurrent signUp requests in SpecConc.
MaxProcs == 2

---------------------------------------------------------------------------
(* Input domains.                                                          *)

Emails == {"jubilee.barefootnomad@gmail.com", "daylay6@gmail.com"}

Passwords == {"Elijahayodele12", "hunter2"}

FirstNames == {"King", "Ago"}

Salts == 1..MaxSalt

\* The user ids a presented token can carry: one per email that can sign up.
TokenIds == 1..Cardinality(Emails)

Procs == 1..MaxProcs

\* The first name of the person an email belongs to.
FirstNameOf(email) == IF email = "jubilee.barefootnomad@gmail.com" THEN "King" ELSE "Ago"

\* req.body of a signup.
Bodies ==
    {b \in [email : Emails, password : Passwords, firstName : FirstNames] :
        b.firstName = FirstNameOf(b.email)}

\* What can go wrong while a signup is served: the store is down
\* (dbUp false), link generation throws (linkOk false), or the provider
\* rejects the mail (sendOk false).
SignUpFaults ==
    {f \in [dbUp : BOOLEAN, linkOk : BOOLEAN, sendOk : BOOLEAN] :
        /\ ~f.dbUp => f.linkOk /\ f.sendOk
        /\ ~f.linkOk => f.sendOk}

---------------------------------------------------------------------------
(* helpers, ApiError and UserResponse (utils, not among the source files). *)

GenericMessage == "Some error occurred while processing your Request"

\* new Error(message)
Error(message) == [type |-> "Error", message |-> message]

\* new ApiError(status, message)
ApiError(status, message) ==
    [type |-> "ApiError", status |-> status, message |-> message]

\* The error a failed store call rejects with.
StoreError == Error("SequelizeDatabaseError")

\* The error a violated unique(email) constraint rejects with.
UniqueError == Error("SequelizeUniqueConstraintError")

\* A thrown error and a returned value, as the outcome of a call.
Throw(error) == [threw |-> TRUE, error |-> error]

Return(value) == [threw |-> FALSE, value |-> value]

\* helpers.hashPassword: a salted one-way digest.
hashPassword(plaintext, salt) ==
    [alg |-> "bcrypt", salt |-> salt, digestOf |-> plaintext]

\* helpers.comparePassword
comparePassword(plaintext, hash) ==
    hash = hashPassword(plaintext, hash.salt)

\* No token: the request carried none, or the handler issued none.
NoToken ==
    [present |-> FALSE, payload |-> <<>>, ttl |-> "none", signed |-> FALSE,
     expired |-> FALSE]

\* helpers.generateToken(payload, expiresIn)
generateToken(payload, ttl) ==
    [present |-> TRUE, payload |-> payload, ttl |-> ttl, signed |-> TRUE,
     expired |-> FALSE]

\* helpers.verifyToken: the payload, or throws Error('Invalid Token').
verifyToken(token) ==
    IF token.present /\ token.signed /\ ~token.expired
    THEN Return(token.payload)
    ELSE Throw(Error("Invalid Token"))

\* user.token = token
WithToken(user, token) ==
    [k \in DOMAIN user \cup {"token"} |->
        IF k = "token" THEN token ELSE user[k]]

\* new UserResponse(user): the record without its password hash.
UserResponse(user) ==
    [k \in DOMAIN user \ {"password"} |-> user[k]]

\* helpers.successResponse(res, data, code = 200)
successResponse(data, code) ==
    [status |-> "success", code |-> code, data |-> data]

\* helpers.errorResponse(res, { code = 500, message = generic }): a property
\* the options object lacks (or holds as undefined) takes its default.
errorResponse(options) ==
    [status |-> "error",
     code |-> IF "code" \in DOMAIN options THEN options.code ELSE 500,
     message |-> IF "message" \in DOMAIN options THEN options.message
                 ELSE GenericMessage]

\* The payloads of the tokens the server signs: { email, id, role } on
\* signup and login, { firstName, id, email } for a password reset.
SessionPayloads == [email : Emails, id : TokenIds, role : {"user"}]

ResetPayloads ==
    {p \in [firstName : FirstNames, id : TokenIds, email : Emails] :
        p.firstName = FirstNameOf(p.email)}

\* A token whose lifetime has elapsed, and one the server did not sign.
ExpiredToken ==
    [generateToken([email |-> "jubilee.barefootnomad@gmail.com", id |-> 1, role |-> "user"],
                   "default") EXCEPT !.expired = TRUE]

TamperedToken ==
    [generateToken([email |-> "jubilee.barefootnomad@gmail.com", id |-> 1, role |-> "user"],
                   "default") EXCEPT !.signed = FALSE]

\* The tokens a request can present: none, a session or reset token the
\* server signed, a stale one or a tampered one.
PresentedTokens ==
    {NoToken, ExpiredToken, TamperedToken} \cup
    {generateToken(p, "default") : p \in SessionPayloads} \cup
    {generateToken(p, "24h") : p \in ResetPayloads}

---------------------------------------------------------------------------
(* The User model (models, not among the source files).                    *)

\* Object.assign(row, fields)
Merge(row, fields) ==
    [k \in DOMAIN row |-> IF k \in DOMAIN fields THEN fields[k] ELSE row[k]]

\* The ids of the rows matching { where: { email } }.
WhereEmail(us, email) == {i \in DOMAIN us : us[i].email = email}

\* The ids of the rows matching { where: { id } }.
WhereId(us, id) == {i \in DOMAIN us : us[i].id = id}

\* User.findOne({ where: { email } }): the row, or null.
Model_findOne(us, email, dbUp) ==
    IF ~dbUp THEN Throw(StoreError)
    ELSE IF WhereEmail(us, email) = {} THEN Return([isNull |-> TRUE])
    ELSE LET i == CHOOSE j \in WhereEmail(us, email) : TRUE
         IN Return([isNull |-> FALSE, dataValues |-> us[i]])

\* User.create(user): a new row with the next id; isVerified defaults to
\* false; the unique(email) constraint rejects a second row with one email.
Model_create(us, user, dbUp) ==
    IF ~dbUp THEN [threw |-> TRUE, error |-> StoreError, users |-> us]
    ELSE IF WhereEmail(us, user.email) # {}
    THEN [threw |-> TRUE, error |-> UniqueError, users |-> us]
    ELSE LET id == Cardinality(DOMAIN us) + 1
             row == [id |-> id, email |-> user.email,
                     password |-> user.password,
                     firstName |-> user.firstName,
                     role |-> "user", isVerified |-> FALSE]
         IN [threw |-> FALSE, value |-> row,
             users |-> [i \in DOMAIN us \cup {id} |->
                           IF i = id THEN row ELSE us[i]]]

\* User.update(fields, { where, returning: true }): [count, rows].
Model_update(us, fields, ids, dbUp) ==
    IF ~dbUp THEN [threw |-> TRUE, error |-> StoreError, users |-> us]
    ELSE LET new == [i \in DOMAIN us |->
                        IF i \in ids THEN Merge(us[i], fields) ELSE us[i]]
         IN [threw |-> FALSE, count |-> Cardinality(ids), rows |-> ids,
             users |-> new]

---------------------------------------------------------------------------
(* UserService (src/src/services/UserService.js).                          *)

\* A create that stores the password as submitted, without hashing it.
create_plain(us, user, salt, dbUp) ==
    Model_create(us,
                 Merge(user, [password |-> [alg |-> "none", salt |-> 0,
                                            digestOf |-> user.password]]),
                 dbUp)

\* UserService.create
create(us, user, salt, dbUp) ==
    Model_create(us,
                 Merge(user, [password |-> hashPassword(user.password, salt)]),
                 dbUp)

\* An updateById whose where clause matches every row.
updateById_all(us, userData, id, dbUp) ==
    LET r == Model_update(us, userData, DOMAIN us, dbUp)
    IN IF r.threw THEN r
       ELSE IF r.count = 0
       THEN [threw |-> TRUE, error |-> Error("Not Found"), users |-> us]
       ELSE [threw |-> FALSE, value |-> r.users[CHOOSE i \in r.rows : TRUE],
             users |-> r.users]

\* UserService.updateById
updateById(us, userData, id, dbUp) ==
    LET r == Model_update(us, userData, WhereId(us, id), dbUp)
    IN IF r.threw THEN r
       ELSE IF r.count = 0
       THEN [threw |-> TRUE, error |-> Error("Not Found"), users |-> us]
       ELSE [threw |-> FALSE, value |-> r.users[CHOOSE i \in r.rows : TRUE],
             users |-> r.users]

\* UserService.find
find(us, email, dbUp) == Model_findOne(us, email, dbUp)

\* UserService.updatePassword
updatePassword(us, password, email, salt, dbUp) ==
    LET hashedPassword == hashPassword(password, salt)
    IN Model_update(us, [password |-> hashedPassword], WhereEmail(us, email),
                    dbUp)

\* UserService.socialLogin: the ApiError(403) thrown inside the try block is
\* caught by the same function's catch and rethrown as ApiError(500).
UserService_socialLogin(us, userData, dbUp) ==
    LET existingUser == Model_findOne(us, userData.emails[1].value, dbUp)
        tried == IF existingUser.threw THEN existingUser
                 ELSE IF existingUser.value.isNull
                 THEN Throw(ApiError(403,
                                     "You need to signup to use this feature"))
                 ELSE Return(existingUser.value.dataValues)
    IN IF tried.threw THEN Throw(ApiError(500, tried.error.message))
       ELSE tried

\* UserService.userLogin
userLogin(us, email, dbUp) == Model_findOne(us, email, dbUp)

---------------------------------------------------------------------------
(* Mailer (src/src/test/request.test.js, lines 180-228).                   *)

\* The outcome of a mailer call: what it returned or threw, and the mails
\* it handed to the provider.
Sent(outcome, mails) ==
    [threw |-> outcome.threw,
     value |-> IF outcome.threw THEN FALSE ELSE outcome.value,
     mails |-> mails]

\* Helpers.generateVerificationLink(req, { id, firstName, role })
generateVerificationLink(options, linkOk) ==
    IF linkOk
    THEN Return([route |-> "/api/auth/verify",
                 token |-> generateToken(options, "default")])
    ELSE Throw(Error("generateVerificationLink failed"))

\* Mailer.sendVerificationEmail: the link is generated outside the try
\* block; only sendgrid.send is inside it.
sendVerificationEmail(options, linkOk, sendOk) ==
    LET verificationLink ==
            generateVerificationLink([id |-> options.id,
                                      firstName |-> options.firstName,
                                      role |-> options.role], linkOk)
        mail == [to |-> options.email, kind |-> "verification",
                 name |-> options.firstName,
                 link |-> verificationLink.value]
    IN IF verificationLink.threw THEN Sent(verificationLink, <<>>)
       ELSE IF sendOk THEN Sent(Return(TRUE), <<mail>>)
       ELSE Sent(Return(FALSE), <<mail>>)

\* Mailer.sendResetMail({ email, firstName, resetPasswordLink }): true when
\* the provider accepted the mail, false otherwise; it never throws.
sendResetMail(options, sendOk) ==
    Sent(Return(sendOk),
         <<[to |-> options.email, kind |-> "reset",
            name |-> options.firstName, link |-> options.resetPasswordLink]>>)

---------------------------------------------------------------------------
(* AuthController (src/src/services/facilityService.js, lines 91-303).     *)

\* What a handler did: the store it left, the response it sent, what it
\* did to the token cookie ("none", "set", "cleared"), the token it
\* generated, the mails it handed to the mailer, and whether a token the
\* request presented passed verifyToken.
Out(us, res, cookie, token, mails, verified) ==
    [users |-> us, res |-> res, cookie |-> cookie, token |-> token,
     mails |-> mails, verified |-> verified]

\* { ...userResponse, emailSent: isSent }
WithEmailSent(userResponse, isSent) ==
    [k \in DOMAIN userResponse \cup {"emailSent"} |->
        IF k = "emailSent" THEN isSent ELSE userResponse[k]]

\* The token signUp, loginUser and socialLogin put on the user.
SessionToken(user) ==
    generateToken([email |-> user.email, id |-> user.id, role |-> user.role],
                  "default")

\* A signUp whose catch block still sets the token cookie.
signUpRespond_cookie(c, m) ==
    IF c.threw \/ m.threw
    THEN Out(c.users, errorResponse(<<>>), "set", NoToken, <<>>, FALSE)
    ELSE Out(c.users,
             successResponse(WithEmailSent(
                 UserResponse(WithToken(c.value, SessionToken(c.value))),
                 m.value), 201),
             "set", SessionToken(c.value), m.mails, FALSE)

\* A signUp that treats an unsent verification mail as a failure.
signUpRespond_abort(c, m) ==
    IF c.threw \/ m.threw \/ ~m.value
    THEN Out(c.users, errorResponse(<<>>), "none", NoToken, <<>>, FALSE)
    ELSE Out(c.users,
             successResponse(WithEmailSent(
                 UserResponse(WithToken(c.value, SessionToken(c.value))),
                 m.value), 201),
             "set", SessionToken(c.value), m.mails, FALSE)

\* AuthController.signUp after its two awaits: c is the outcome of
\* create({ ...body }), m the outcome of sendVerificationEmail (read only
\* when create returned).
signUpRespond(c, m) ==
    IF c.threw
    THEN Out(c.users, errorResponse(<<>>), "none", NoToken, <<>>, FALSE)
    ELSE LET token == SessionToken(c.value)
             userResponse == UserResponse(WithToken(c.value, token))
         IN IF m.threw
            THEN Out(c.users, errorResponse(<<>>), "none", token, m.mails,
                     FALSE)
            ELSE Out(c.users,
                     successResponse(WithEmailSent(userResponse, m.value),
                                     201),
                     "set", token, m.mails, FALSE)

\* The argument signUp passes to sendVerificationEmail: { ...userResponse }.
signUpMailOptions(c) ==
    UserResponse(WithToken(c.value, SessionToken(c.value)))

\* AuthController.signUp
signUp(us, body, salt, dbUp, linkOk, sendOk) ==
    LET c == create(us, body, salt, dbUp)
        m == IF c.threw THEN Sent(Return(FALSE), <<>>)
             ELSE sendVerificationEmail(signUpMailOptions(c), linkOk, sendOk)
    IN signUpRespond(c, m)

\* A verifyEmail that reports an unknown id as an invalid token.
verifyEmailCatch_swapped(e) ==
    IF e.message = "Not Found"
    THEN errorResponse([code |-> 400,
                        message |-> "Invalid token, verification unsuccessful"])
    ELSE IF e.message = "Invalid Token"
    THEN errorResponse([code |-> 400, message |-> "no user found to verify"])
    ELSE errorResponse(<<>>)

\* The catch block of AuthController.verifyEmail.
verifyEmailCatch(e) ==
    IF e.message = "Invalid Token"
    THEN errorResponse([code |-> 400,
                        message |-> "Invalid token, verification unsuccessful"])
    ELSE IF e.message = "Not Found"
    THEN errorResponse([code |-> 400, message |-> "no user found to verify"])
    ELSE errorResponse(<<>>)

\* AuthController.verifyEmail
verifyEmail(us, token, dbUp) ==
    LET decoded == verifyToken(token)
        user == updateById(us, [isVerified |-> TRUE], decoded.value.id, dbUp)
    IN IF decoded.threw
       THEN Out(us, verifyEmailCatch(decoded.error), "none", NoToken, <<>>,
                FALSE)
       ELSE IF user.threw
       THEN Out(user.users, verifyEmailCatch(user.error), "none", NoToken,
                <<>>, TRUE)
       ELSE Out(user.users, successResponse(UserResponse(user.value), 200),
                "none", NoToken, <<>>, TRUE)

\* err.status || 500
StatusOr500(err) ==
    IF "status" \in DOMAIN err THEN err.status ELSE 500

\* The message of ApiError(404, response) when response is the boolean false.
FalseMessage == "false"

\* The reset link sendResetPasswordEmail mails.
ResetLink(token) == [route |-> "/api/auth/reset-password", token |-> token]

\* A sendResetPasswordEmail that does not look at the lookup's result.
sendResetPasswordEmail_nolookup(us, email, dbUp, sendOk) ==
    LET token == generateToken([firstName |-> "King", id |-> 1,
                                email |-> email], "24h")
        response == sendResetMail([email |-> email, firstName |-> "King",
                                   resetPasswordLink |-> ResetLink(token)],
                                  sendOk)
    IN IF response.value = TRUE
       THEN Out(us, successResponse("Password reset link sent successfully",
                                    200),
                "none", token, response.mails, FALSE)
       ELSE Out(us, errorResponse([code |-> 404, message |-> FalseMessage]),
                "none", token, response.mails, FALSE)

\* AuthController.sendResetPasswordEmail
sendResetPasswordEmail(us, email, dbUp, sendOk) ==
    LET user == find(us, email, dbUp)
        firstName == user.value.dataValues.firstName
        id == user.value.dataValues.id
        token == generateToken([firstName |-> firstName, id |-> id,
                                email |-> email], "24h")
        response == sendResetMail([email |-> email, firstName |-> firstName,
                                   resetPasswordLink |-> ResetLink(token)],
                                  sendOk)
        notFound == ApiError(404, "User account does not exist")
        notSent == ApiError(404, FalseMessage)
    IN IF user.threw
       THEN Out(us, errorResponse([code |-> StatusOr500(user.error),
                                   message |-> user.error.message]),
                "none", NoToken, <<>>, FALSE)
       ELSE IF user.value.isNull
       THEN Out(us, errorResponse([code |-> StatusOr500(notFound),
                                   message |-> notFound.message]),
                "none", NoToken, <<>>, FALSE)
       ELSE IF response.value = TRUE
       THEN Out(us, successResponse("Password reset link sent successfully",
                                    200),
                "none", token, response.mails, FALSE)
       ELSE Out(us, errorResponse([code |-> StatusOr500(notSent),
                                   message |-> notSent.message]),
                "none", token, response.mails, FALSE)

\* A resetPassword that answers 200 whatever the affected-row count.
resetPassword_always200(us, email, password, salt, dbUp) ==
    LET result == updatePassword(us, password, email, salt, dbUp)
    IN Out(result.users,
           successResponse("Password has been changed successfully", 200),
           "none", NoToken, <<>>, FALSE)

\* AuthController.resetPassword: the account is named by req.params.email;
\* no token is read.
resetPassword(us, email, password, salt, dbUp) ==
    LET result == updatePassword(us, password, email, salt, dbUp)
        notFound == ApiError(404, "User account does not exist")
    IN IF result.threw
       THEN Out(result.users,
                errorResponse([code |-> StatusOr500(result.error),
                               message |-> result.error.message]),
                "none", NoToken, <<>>, FALSE)
       ELSE IF result.count = 1
       THEN Out(result.users,
                successResponse("Password has been changed successfully", 200),
                "none", NoToken, <<>>, FALSE)
       ELSE Out(result.users,
                errorResponse([code |-> StatusOr500(notFound),
                               message |-> notFound.message]),
                "none", NoToken, <<>>, FALSE)

\* `Verification unsuccessful, ${err.message}`
Unsuccessful(message) ==
    IF message = "Invalid Token"
    THEN "Verification unsuccessful, Invalid Token"
    ELSE "Verification unsuccessful, "

\* AuthController.verifyPasswordResetLink
verifyPasswordResetLink(us, token) ==
    LET decoded == verifyToken(token)
    IN IF decoded.threw
       THEN Out(us,
                errorResponse([code |-> StatusOr500(decoded.error),
                               message |-> Unsuccessful(decoded.error.message)]),
                "none", NoToken, <<>>, FALSE)
       ELSE Out(us,
                successResponse([goto |-> "/api/auth/password/reset/",
                                 email |-> decoded.value.email,
                                 method |-> "POST"], 200),
                "none", NoToken, <<>>, TRUE)

\* A loginUser that tells an unknown email from a wrong password.
loginUser_enumerable(us, email, password, dbUp) ==
    LET user == userLogin(us, email, dbUp)
    IN IF user.threw
       THEN Out(us, errorResponse(<<>>), "none", NoToken, <<>>, FALSE)
       ELSE IF user.value.isNull
       THEN Out(us, errorResponse([code |-> 404,
                                   message |-> "User account does not exist"]),
                "none", NoToken, <<>>, FALSE)
       ELSE IF ~comparePassword(password, user.value.dataValues.password)
       THEN Out(us, errorResponse([code |-> 401,
                                   message |-> "Invalid login details"]),
                "none", NoToken, <<>>, FALSE)
       ELSE Out(us,
                successResponse(UserResponse(WithToken(
                    user.value.dataValues,
                    SessionToken(user.value.dataValues))), 200),
                "set", SessionToken(user.value.dataValues), <<>>, FALSE)

\* AuthController.loginUser
loginUser(us, email, password, dbUp) ==
    LET user == userLogin(us, email, dbUp)
    IN IF user.threw
       THEN Out(us, errorResponse(<<>>), "none", NoToken, <<>>, FALSE)
       ELSE IF user.value.isNull
       THEN Out(us, errorResponse([code |-> 401,
                                   message |-> "Invalid login details"]),
                "none", NoToken, <<>>, FALSE)
       ELSE IF ~comparePassword(password, user.value.dataValues.password)
       THEN Out(us, errorResponse([code |-> 401,
                                   message |-> "Invalid login details"]),
                "none", NoToken, <<>>, FALSE)
       ELSE LET token == SessionToken(user.value.dataValues)
                loginResponse ==
                    UserResponse(WithToken(user.value.dataValues, token))
            IN Out(us, successResponse(loginResponse, 200), "set", token,
                   <<>>, FALSE)

\* A socialLogin that creates an account for an identity without one.
socialLogin_provision(us, userData, dbUp) ==
    LET existing == Model_findOne(us, userData.emails[1].value, dbUp)
        made == Model_create(us,
                             [email |-> userData.emails[1].value,
                              password |-> hashPassword("hunter2", 1),
                              firstName |-> FirstNameOf(
                                  userData.emails[1].value)],
                             dbUp)
    IN IF existing.threw \/ made.threw
       THEN Out(us, errorResponse([message |-> GenericMessage]), "none",
                NoToken, <<>>, FALSE)
       ELSE Out(made.users,
                successResponse(UserResponse(WithToken(
                    made.value, SessionToken(made.value))), 200),
                "none", SessionToken(made.value), <<>>, FALSE)

\* AuthController.socialLogin: the catch block reads error.statusCode, a
\* property ApiError{status, message} does not have.
socialLogin(us, userData, dbUp) ==
    LET user == UserService_socialLogin(us, userData, dbUp)
    IN IF user.threw
       THEN Out(us,
                errorResponse(
                    IF "statusCode" \in DOMAIN user.error
                    THEN [code |-> user.error.statusCode,
                          message |-> user.error.message]
                    ELSE [message |-> user.error.message]),
                "none", NoToken, <<>>, FALSE)
       ELSE LET token == SessionToken(user.value)
            IN Out(us,
                   successResponse(UserResponse(WithToken(user.value, token)),
                                   200),
                   "none", token, <<>>, FALSE)

\* AuthController.logout
logout(us) ==
    Out(us,
        successResponse([code |-> 200,
                         message |-> "You have been successfully logged out"],
                        200),
        "cleared", NoToken, <<>>, FALSE)

---------------------------------------------------------------------------
(* The handlers as actions: one request served from start to end.          *)

\* The request a handler served and what it did, kept in last.
Served(op, req, out) ==
    [op |-> op, req |-> req, res |-> out.res, cookie |-> out.cookie,
     token |-> out.token, mails |-> out.mails, verified |-> out.verified]

NoRequest ==
    [op |-> "none", req |-> <<>>, res |-> [status |-> "none", code |-> 0],
     cookie |-> "none", token |-> NoToken, mails |-> <<>>,
     verified |-> FALSE]

\* A signUp request that has not arrived yet.
Idle ==
    [pc |-> "idle", body |-> <<>>, c |-> [threw |-> TRUE],
     m |-> Sent(Return(FALSE), <<>>), out |-> NoRequest]

Init ==
    /\ users = <<>>
    /\ last = NoRequest
    /\ procs = [p \in Procs |-> Idle]

\* POST /signup
SignUp ==
    \E body \in Bodies, salt \in Salts, f \in SignUpFaults :
        LET out == signUp(users, body, salt, f.dbUp, f.linkOk, f.sendOk)
        IN /\ users' = out.users
           /\ last' = Served("signUp",
                             [body |-> body, dbUp |-> f.dbUp,
                              linkOk |-> f.linkOk, sendOk |-> f.sendOk], out)
           /\ UNCHANGED procs

\* GET /verify?token=
VerifyEmail ==
    \E token \in PresentedTokens, dbUp \in BOOLEAN :
        LET out == verifyEmail(users, token, dbUp)
        IN /\ users' = out.users
           /\ last' = Served("verifyEmail", [token |-> token, dbUp |-> dbUp],
                             out)
           /\ UNCHANGED procs

\* POST /reset-password/
SendResetPasswordEmail ==
    \E email \in Emails, dbUp \in BOOLEAN, sendOk \in BOOLEAN :
        LET out == sendResetPasswordEmail(users, email, dbUp, sendOk)
        IN /\ users' = out.users
           /\ last' = Served("sendResetPasswordEmail",
                             [email |-> email, dbUp |-> dbUp,
                              sendOk |-> sendOk], out)
           /\ UNCHANGED procs

\* GET /reset-password?token=
VerifyPasswordResetLink ==
    \E token \in PresentedTokens :
        LET out == verifyPasswordResetLink(users, token)
        IN /\ users' = out.users
           /\ last' = Served("verifyPasswordResetLink", [token |-> token], out)
           /\ UNCHANGED procs

\* POST /password/reset/:email
ResetPassword ==
    \E email \in Emails, password \in Passwords, salt \in Salts,
       dbUp \in BOOLEAN :
        LET out == resetPassword(users, email, password, salt, dbUp)
        IN /\ users' = out.users
           /\ last' = Served("resetPassword",
                             [email |-> email, password |-> password,
                              dbUp |-> dbUp], out)
           /\ UNCHANGED procs

\* POST /login
LoginUser ==
    \E email \in Emails, password \in Passwords, dbUp \in BOOLEAN :
        LET out == loginUser(users, email, password, dbUp)
        IN /\ users' = out.users
           /\ last' = Served("loginUser",
                             [email |-> email, password |-> password,
                              dbUp |-> dbUp], out)
           /\ UNCHANGED procs

\* GET /facebook/callback, /google/callback: req.user is the identity the
\* provider authenticated.
SocialLogin ==
    \E email \in Emails, dbUp \in BOOLEAN :
        LET out == socialLogin(users, [emails |-> <<[value |-> email]>>],
                               dbUp)
        IN /\ users' = out.users
           /\ last' = Served("socialLogin", [email |-> email, dbUp |-> dbUp],
                             out)
           /\ UNCHANGED procs

\* GET /logout
Logout ==
    LET out == logout(users)
    IN /\ users' = out.users
       /\ last' = Served("logout", <<>>, out)
       /\ UNCHANGED procs

Next ==
    \/ SignUp
    \/ VerifyEmail
    \/ SendResetPasswordEmail
    \/ VerifyPasswordResetLink
    \/ ResetPassword
    \/ LoginUser
    \/ SocialLogin
    \/ Logout

Spec == Init /\ [][Next]_vars

---------------------------------------------------------------------------
(* Concurrent signUp requests, each split at its awaits.                   *)

\* The signup bodies of the concurrent requests: one per email.
ConcBodies == {b \in Bodies : b.password = "hunter2"}

\* signUp up to `await create({ ...body })`: the insert is one store
\* statement.
SignUpCreate(p) ==
    /\ procs[p].pc = "idle"
    /\ \E body \in ConcBodies, salt \in Salts, dbUp \in BOOLEAN :
        LET c == create(users, body, salt, dbUp)
        IN /\ users' = c.users
           /\ procs' = [procs EXCEPT ![p] =
                 [pc |-> IF c.threw THEN "respond" ELSE "mail",
                  body |-> body, c |-> [c EXCEPT !.users = <<>>],
                  m |-> Idle.m, out |-> NoRequest]]
    /\ UNCHANGED last

\* signUp up to `await sendVerificationEmail(req, { ...userResponse })`.
SignUpMail(p) ==
    /\ procs[p].pc = "mail"
    /\ \E f \in {g \in SignUpFaults : g.dbUp} :
        procs' = [procs EXCEPT ![p].pc = "respond",
                               ![p].m = sendVerificationEmail(
                                   signUpMailOptions(procs[p].c), f.linkOk,
                                   f.sendOk)]
    /\ UNCHANGED <<users, last>>

\* signUp to its end: the cookie and the response, or the catch block.
SignUpRespond(p) ==
    /\ procs[p].pc = "respond"
    /\ procs' = [procs EXCEPT ![p].pc = "done",
                              ![p].out = Served("signUp", procs[p].body,
                                                signUpRespond(procs[p].c,
                                                              procs[p].m))]
    /\ UNCHANGED <<users, last>>

NextConc ==
    \E p \in Procs : SignUpCreate(p) \/ SignUpMail(p) \/ SignUpRespond(p)

SpecConc == Init /\ [][NextConc]_vars

---------------------------------------------------------------------------
(* Properties.                                                             *)

\* A presented token passes verification: signed by the server, not stale.
Verifies(token) == token.present /\ token.signed /\ ~token.expired

InvalidLogin ==
    [status |-> "error", code |-> 401, message |-> "Invalid login details"]

\* C1: a state-changing handler (verifyEmail, resetPassword) changes a user
\* record only if the request presented a token that verified; a request
\* with no token, a stale token or an invalid token changes no record.
C1_ChangeNeedsVerifiedToken ==
    [][(last'.op \in {"verifyEmail", "resetPassword"} /\ users' # users)
          => last'.verified]_vars

\* C2: loginUser with an email that has no record, and loginUser with an
\* existing email and a password that does not match, both answer
\* 401 "Invalid login details", issue no token and set no cookie.
C2_LoginFailuresIdentical ==
    (last.op = "loginUser" /\ last.req.dbUp)
    => LET ids == {i \in DOMAIN users : users[i].email = last.req.email}
       IN (\/ ids = {}
           \/ \E i \in ids : users[i].password.digestOf # last.req.password)
          => /\ last.res = InvalidLogin
             /\ last.token = NoToken
             /\ last.cookie = "none"

\* A login with the wrong password for an existing account was answered.
C2_Witness_WrongPassword ==
    /\ last.op = "loginUser"
    /\ last.req.dbUp
    /\ \E i \in DOMAIN users :
          /\ users[i].email = last.req.email
          /\ users[i].password.digestOf # last.req.password
    /\ last.res.code = 401

\* C3: socialLogin for an identity whose email matches no local user answers
\* 403 "You need to signup to use this feature"; for one whose email matches
\* a local user it answers 200 with a token for that user.
C3_SocialLoginStatus ==
    (last.op = "socialLogin" /\ last.req.dbUp)
    => LET ids == {i \in DOMAIN users : users[i].email = last.req.email}
       IN IF ids = {}
          THEN /\ last.res.status = "error"
               /\ last.res.code = 403
               /\ last.res.message = "You need to signup to use this feature"
          ELSE /\ last.res.status = "success"
               /\ last.res.code = 200
               /\ \E i \in ids : last.res.data.token.payload.id = i

\* C4: isVerified is false in the record a signUp creates, becomes true only
\* by a successful verifyEmail whose token carries that record's id, and
\* never returns to false; a record is never removed, so the change from
\* false to true happens once.
C4_VerifiedOnceByVerifyEmail ==
    [][/\ \A i \in DOMAIN users' \ DOMAIN users :
             /\ last'.op = "signUp"
             /\ ~users'[i].isVerified
       /\ \A i \in DOMAIN users :
             /\ i \in DOMAIN users'
             /\ users[i].isVerified => users'[i].isVerified
             /\ (~users[i].isVerified /\ users'[i].isVerified)
                   => /\ last'.op = "verifyEmail"
                      /\ last'.res.status = "success"
                      /\ Verifies(last'.req.token)
                      /\ last'.req.token.payload.id = i]_vars

\* A successful verifyEmail has verified one of two records and left the
\* other unverified.
C4_Witness_Verified ==
    /\ last.op = "verifyEmail"
    /\ last.res.status = "success"
    /\ \E i, j \in DOMAIN users :
          /\ users[i].isVerified
          /\ last.req.token.payload.id = i
          /\ ~users[j].isVerified

\* C5: verifyEmail with a token that fails verification answers
\* 400 "Invalid token, verification unsuccessful"; with a token that
\* verifies but whose id matches no row it answers
\* 400 "no user found to verify"; neither changes a record; the success
\* response is sent only when exactly the row with the token's id had
\* isVerified set to true, and it carries that row without its password.
C5_VerifyEmailOutcomes ==
    [][last'.op = "verifyEmail"
       => LET token == last'.req.token
              id == token.payload.id
          IN /\ ~Verifies(token)
                   => /\ last'.res =
                            [status |-> "error", code |-> 400,
                             message |->
                                 "Invalid token, verification unsuccessful"]
                      /\ users' = users
             /\ (Verifies(token) /\ last'.req.dbUp /\ id \notin DOMAIN users)
                   => /\ last'.res =
                            [status |-> "error", code |-> 400,
                             message |-> "no user found to verify"]
                      /\ users' = users
             /\ last'.res.status = "success"
                   => /\ Verifies(token)
                      /\ id \in DOMAIN users
                      /\ users' = [users EXCEPT ![id].isVerified = TRUE]
                      /\ last'.res.code = 200
                      /\ last'.res.data =
                            [k \in DOMAIN users'[id] \ {"password"} |->
                                users'[id][k]]]_vars

\* A verified token for an id without a row was answered while a record
\* exists.
C5_Witness_NoUser ==
    /\ last.op = "verifyEmail"
    /\ Verifies(last.req.token)
    /\ last.req.dbUp
    /\ users # <<>>
    /\ last.req.token.payload.id \notin DOMAIN users
    /\ last.res.message = "no user found to verify"

C7_SendResetOutcomes ==
    (last.op = "sendResetPasswordEmail" /\ last.req.dbUp)
    => LET ids == {i \in DOMAIN users : users[i].email = last.req.email}
       IN /\ ids = {}
                => /\ last.res =
                         [status |-> "error", code |-> 404,
                          message |-> "User account does not exist"]
                   /\ last.mails = <<>>
                   /\ last.token = NoToken
          /\ \A i \in ids :
                /\ Len(last.mails) = 1
                /\ last.mails[1].kind = "reset"
                /\ last.mails[1].to = last.req.email
                /\ last.mails[1].link.token = last.token
                /\ Verifies(last.token)
                /\ last.token.ttl = "24h"
                /\ last.token.payload =
                      [firstName |-> users[i].firstName, id |-> users[i].id,
                       email |-> users[i].email]
                /\ (last.res.status = "success") = last.req.sendOk
                /\ last.res.status = "success" => last.res.code = 200
                /\ ~last.req.sendOk
                      => (last.res.status = "error" /\ last.res.code = 404)

\* The mailer reported failure for the second record's reset mail.
C7_Witness_MailFailed ==
    /\ last.op = "sendResetPasswordEmail"
    /\ last.req.dbUp
    /\ ~last.req.sendOk
    /\ \E i \in DOMAIN users :
          /\ users[i].email = last.req.email
          /\ i = 2
    /\ Len(last.mails) = 1
    /\ last.res.code = 404

C9_PasswordAlwaysHashed ==
    [][/\ \A i \in DOMAIN users' :
             \E p \in Passwords, salt \in Salts :
                users'[i].password = hashPassword(p, salt)
       /\ \A i \in DOMAIN users' \ DOMAIN users :
             /\ last'.op = "signUp"
             /\ users'[i].password.digestOf = last'.req.body.password
       /\ \A i \in DOMAIN users \cap DOMAIN users' :
             users'[i].password # users[i].password
                => /\ last'.op = "resetPassword"
                   /\ users'[i].password.digestOf = last'.req.password]_vars

\* Both write paths have run: a record created by signUp holds the hash of
\* a password a later resetPassword submitted.
C9_Witness_BothPaths ==
    /\ last.op = "resetPassword"
    /\ last.res.status = "success"
    /\ \E i \in DOMAIN users :
          /\ users[i].email = last.req.email
          /\ users[i].password = hashPassword("hunter2", 2)

\* The concurrent signUp requests that have ended and carried this email.
DoneFor(email) ==
    {p \in Procs : procs[p].pc = "done" /\ procs[p].body.email = email}

\* C10: under every interleaving of concurrent signUp requests with one
\* email, at most one record with that email exists, at most one request
\* answers 201, and every other one ends with the generic error response
\* and no token cookie.
C10_OneSignupPerEmail ==
    \A email \in Emails :
        /\ Cardinality({i \in DOMAIN users : users[i].email = email}) <= 1
        /\ Cardinality({p \in DoneFor(email) :
                           procs[p].out.res.code = 201}) <= 1
        /\ \A p \in DoneFor(email) :
              procs[p].out.res.code # 201
                 => /\ procs[p].out.res =
                          [status |-> "error", code |-> 500,
                           message |-> GenericMessage]
                    /\ procs[p].out.cookie = "none"

\* Two requests with one email have ended: one answered 201, the other was
\* rejected by the store's uniqueness constraint.
C10_Witness_Race ==
    \E p, q \in Procs :
        /\ p # q
        /\ procs[p].pc = "done"
        /\ procs[q].pc = "done"
        /\ procs[p].body.email = procs[q].body.email
        /\ procs[p].out.res.code = 201
        /\ procs[q].c.threw
        /\ procs[q].c.error = UniqueError
        /\ procs[q].out.res.status = "error"

\* C11: Mailer.sendVerificationEmail never throws to its caller: whatever
\* the outcome of link generation and of the provider send, it returns the
\* boolean true (delivered) or false (not delivered).
C11_MailerNeverThrows ==
    \A p \in Procs :
        (procs[p].pc \in {"respond", "done"} /\ ~procs[p].c.threw)
           => /\ ~procs[p].m.threw
              /\ procs[p].m.value \in BOOLEAN

\* The handlers, other than sendResetPasswordEmail, that call the store.
StoreHandlers ==
    {"signUp", "verifyEmail", "resetPassword", "loginUser", "socialLogin"}

\* The request met a store failure: the handler reached its store call and
\* the store rejected it.
StoreFailed(served) ==
    /\ served.op \in StoreHandlers
    /\ ~served.req.dbUp
    /\ served.op = "verifyEmail" => Verifies(served.req.token)

\* C12: in every handler other than sendResetPasswordEmail and logout, an
\* error that is neither an ApiError nor has the message 'Not Found' or
\* 'Invalid Token' (a store failure) gives the generic error response, and
\* that response does not contain the thrown error's message.
C12_StoreFailureIsGeneric ==
    StoreFailed(last)
       => /\ last.res =
                [status |-> "error", code |-> 500, message |-> GenericMessage]
          /\ last.res.message # StoreError.message

\* C13: whenever signUp ends with an error response it left no record
\* behind: a signUp call creates a record if and only if it answers 201; no
\* step after the insert turns a persisted signup into an error response.
C13_RecordIffCreated ==
    [][last'.op = "signUp"
       => ((DOMAIN users' # DOMAIN users)
              <=> (last'.res.status = "success" /\ last'.res.code = 201))]_vars

\* The handlers that only read the store.
ReadOnlyHandlers ==
    {"loginUser", "socialLogin", "logout", "verifyPasswordResetLink",
     "sendResetPasswordEmail"}

\* C14: no record is ever deleted; loginUser, socialLogin, logout,
\* verifyPasswordResetLink and sendResetPasswordEmail leave the store
\* unchanged whatever their outcome; records are created only by signUp,
\* isVerified is written only by verifyEmail and the password hash only by
\* signUp (in the record it creates) and resetPassword.
C14_StoreFrame ==
    [][/\ DOMAIN users \subseteq DOMAIN users'
       /\ last'.op \in ReadOnlyHandlers => users' = users
       /\ DOMAIN users' # DOMAIN users => last'.op = "signUp"
       /\ \A i \in DOMAIN users \cap DOMAIN users' :
             /\ users'[i].isVerified # users[i].isVerified
                   => last'.op = "verifyEmail"
             /\ users'[i].password # users[i].password
                   => last'.op = "resetPassword"
             /\ users'[i].id = users[i].id
             /\ users'[i].email = users[i].email]_vars

\* A socialLogin for an identity without an account was turned away while
\* another account exists, and none was created for it.
C14_Witness_NoProvision ==
    /\ last.op = "socialLogin"
    /\ last.req.dbUp
    /\ last.res.status = "error"
    /\ Cardinality(DOMAIN users) = 1
    /\ \A i \in DOMAIN users : users[i].email # last.req.email

====
